---- MODULE Spec2Model ----
(***************************************************************************)
(* Model of package goconf (src/goconf.go): a Config gives cached,         *)
(* section-oriented access to an INI-style file.  The parser, the section  *)
(* loader, the constructor and the Section/Close facade are translated     *)
(* from goconf.go.  The cache behind Config.cgm is the congomap package,   *)
(* whose code is not part of goconf.go; LoadStore, Close, NewSyncAtomicMap *)
(* and the congomap TTL setter are modelled from section 4.1 of the        *)
(* specification ("Cache Core").                                           *)
(*                                                                         *)
(* Strings are sequences of one-character strings, so that the regular     *)
(* expressions, strings.IndexByte and strings.TrimSpace are computed, not  *)
(* assumed.                                                                *)
(***************************************************************************)
EXTENDS Integers, Sequences, FiniteSets, TLC

VARIABLES
    opts,      \* the setters handed to New: a sequence of TTL arguments
    c,         \* the *Config New returned (NilConfig when it failed)
    newErr,    \* the error New returned
    fs,        \* the file system: pathname -> file
    now,       \* the clock
    cgmTTL,    \* cache: the configured time-to-live, 0 = entries never expire
    db,        \* cache: section name -> [value, ts]
    inflight,  \* cache: the section names whose load is in flight
    closed,    \* cache: Close has returned
    pc,        \* per caller: position inside Config.Section
    key,       \* per caller: the section name of its call in progress
    loadRes,   \* per caller: what the loader returned to it
    nloads,    \* per section name: loader invocations of its load in flight
    ret,       \* what Section returned in the step just taken: caller ->
               \* (mapping, error) for the callers that returned in it, empty
               \* when no call returned in it
    served,    \* how the calls that returned in the step just taken were served
    heap,      \* memory: address -> the contents of the map[string]string at
               \* it, for the maps the cache or a loader holds
    cref,      \* cache: section name -> the address of the map stored for it
    lref       \* per caller: the address of the map its loader returned

vars == <<opts, c, newErr, fs, now, cgmTTL, db, inflight, closed,
          pc, key, loadRes, nloads, ret, served, heap, cref, lref>>

-----------------------------------------------------------------------------
(* Bounds of the model *)

NumCallers == 2
MaxTime == 3
MaxTTL == 2
MaxLines == 3

Callers == 1..NumCallers

-----------------------------------------------------------------------------
(* Strings *)

DefaultSectionName == <<"G", "e", "n", "e", "r", "a", "l">>

SecA == <<"A">>
SecB == <<"B">>
Names == {DefaultSectionName, SecA, SecB}

\* the sections asked for in the cache's specification: SecA is in every
\* well-formed file of Files, SecB in none
CacheNames == {SecA, SecB}

Pathname == "conf"

\* the element of a one-element set: The({e(x) : x \in {v}}) is e at the
\* value of v, computed once
The(S) == CHOOSE x \in S : TRUE

SetMin(S) == CHOOSE x \in S : \A y \in S : x <= y
SetMax(S) == CHOOSE x \in S : \A y \in S : x >= y

\* unicode.IsSpace / the class \s, over the characters of the model
IsSpace(ch) == ch \in {" ", "\t"}

\* strings.IndexByte: 0-based index of the first ch, -1 when there is none
IndexByte(line, ch) ==
    LET at == {i \in 1..Len(line) : line[i] = ch}
    IN  IF at = {} THEN -1 ELSE SetMin(at) - 1

\* lines 108-110: cut the line at the first ';'
StripComment(line) ==
    LET comment == IndexByte(line, ";")
    IN  IF comment >= 0 THEN SubSeq(line, 1, comment) ELSE line

\* strings.TrimSpace
TrimSpace(line) ==
    LET solid == {i \in 1..Len(line) : ~IsSpace(line[i])}
    IN  IF solid = {} THEN <<>> ELSE SubSeq(line, SetMin(solid), SetMax(solid))

\* sectionRe.FindStringSubmatch, "^\[([^\]]+)\]$": <<>> is Go's nil (no match),
\* else <<whole match, group 1>>
sectionRe(line) ==
    IF /\ Len(line) >= 3
       /\ line[1] = "["
       /\ line[Len(line)] = "]"
       /\ \A i \in 2..(Len(line) - 1) : line[i] # "]"
    THEN <<line, SubSeq(line, 2, Len(line) - 1)>>
    ELSE <<>>

\* the value group as (.*): a pair with nothing after the '=' matches, its
\* value empty
keyValReEmptyValue(line) ==
    LET eq   == IndexByte(line, "=") + 1
        rest == SubSeq(line, eq + 1, Len(line))
        lead == IF \E i \in 1..Len(rest) : ~IsSpace(rest[i])
                THEN SetMin({i \in 1..Len(rest) : ~IsSpace(rest[i])}) - 1
                ELSE Len(rest)
    IN  IF eq >= 2
        THEN <<line, SubSeq(line, 1, eq - 1), SubSeq(rest, lead + 1, Len(rest))>>
        ELSE <<>>

\* keyValRe.FindStringSubmatch, "^([^=]+)\s*=\s*(.+)$": <<>> is nil, else
\* <<whole match, group 1, group 2>>.  [^=]+ is greedy and cannot cross an '=',
\* so it takes everything before the first '=' (trailing blanks included, the
\* \s* after it matching nothing); the second \s* is greedy but gives back one
\* character when the rest is all blanks, so that .+ matches.
keyValRe(line) ==
    LET eq   == IndexByte(line, "=") + 1
        rest == SubSeq(line, eq + 1, Len(line))
        lead == IF \E i \in 1..Len(rest) : ~IsSpace(rest[i])
                THEN SetMin({i \in 1..Len(rest) : ~IsSpace(rest[i])}) - 1
                ELSE Len(rest) - 1
    IN  IF eq >= 2 /\ Len(rest) >= 1
        THEN <<line, SubSeq(line, 1, eq - 1), SubSeq(rest, lead + 1, Len(rest))>>
        ELSE <<>>

-----------------------------------------------------------------------------
(* Values and errors *)

NilErr == [kind |-> "nil"]
OpenErr == [kind |-> "open"]
InvalidLineErr(line) == [kind |-> "invalid config line", line |-> line]
NoSuchSectionErr(section) == [kind |-> "no such section", section |-> section]
TTLErr == [kind |-> "ttl must be greater than 0"]
ClosedErr == [kind |-> "closed"]

\* a Go map[string]string value: nil, or a mapping key -> value
NilMap == [nil |-> TRUE]
Map(m) == [nil |-> FALSE, dict |-> m]
EmptyDict == [k \in {} |-> <<>>]

NilConfig == [nil |-> TRUE]

NoFile == [exists |-> FALSE]
File(lines) == [exists |-> TRUE, lines |-> lines]

\* m[k] = v on a mapping
Put(m, k, v) == [x \in (DOMAIN m) \cup {k} |-> IF x = k THEN v ELSE m[x]]

\* delete(m, k), and m cut down to the keys of S
Drop(m, k) == [x \in (DOMAIN m) \ {k} |-> m[x]]
Restrict(m, S) == [x \in (DOMAIN m) \cap S |-> m[x]]

\* the addresses the references of cr (the cache's) and lr (the loaders') hold
InUse(cr, lr) == {cr[n] : n \in DOMAIN cr} \cup {lr[p] : p \in DOMAIN lr}

\* one map made once and used by every parse
NewMapShared(used) == 1

\* make(map[string]string), lines 104 and 119: a map of its own, at an
\* address no reference holds
NewMap(used) == SetMin({a \in 1..(Cardinality(used) + 1) : a \notin used})

-----------------------------------------------------------------------------
(* parseConfigFile, src/goconf.go lines 92-128 *)

\* a map[string]map[string]string; Go's nil map reads like the empty one
EmptyConf == [s \in {} |-> EmptyDict]

\* line 104 left out: no default section until a pair is stored in it
DefaultConfMissing == EmptyConf

\* line 104: conf[section] = make(map[string]string), always a default section
DefaultConf == Put(EmptyConf, DefaultSectionName, EmptyDict)

\* lines 118-121: conf[section][md[1]] = md[2], creating conf[section] when nil
Store(conf, section, k, v) ==
    Put(conf, section,
        Put(IF section \in DOMAIN conf THEN conf[section] ELSE EmptyDict, k, v))

\* lines 122-125 left out: an invalid line is skipped
parseLineSkipInvalid(raw, st) ==
    LET on(line) ==
        IF Len(line) = 0 THEN st
        ELSE IF sectionRe(line) # <<>>
        THEN [st EXCEPT !.section = sectionRe(line)[2]]
        ELSE IF keyValRe(line) # <<>>
        THEN [st EXCEPT !.conf = Store(st.conf, st.section,
                                       keyValRe(line)[2], keyValRe(line)[3])]
        ELSE st
    IN  The({on(line) : line \in {TrimSpace(StripComment(raw))}})

\* line 116 left out: a header does not change the current section
parseLineKeepSection(raw, st) ==
    LET on(line) ==
        IF Len(line) = 0 THEN st
        ELSE IF sectionRe(line) # <<>>
        THEN st
        ELSE IF keyValRe(line) # <<>>
        THEN [st EXCEPT !.conf = Store(st.conf, st.section,
                                       keyValRe(line)[2], keyValRe(line)[3])]
        ELSE [st EXCEPT !.err = InvalidLineErr(line)]
    IN  The({on(line) : line \in {TrimSpace(StripComment(raw))}})

\* line 116 followed by line 119: a header creates its section at once
parseLineHeaderCreates(raw, st) ==
    LET on(line) ==
        IF Len(line) = 0 THEN st
        ELSE IF sectionRe(line) # <<>>
        THEN [st EXCEPT !.section = sectionRe(line)[2],
                        !.conf = IF sectionRe(line)[2] \in DOMAIN st.conf
                                 THEN st.conf
                                 ELSE Put(st.conf, sectionRe(line)[2], EmptyDict)]
        ELSE IF keyValRe(line) # <<>>
        THEN [st EXCEPT !.conf = Store(st.conf, st.section,
                                       keyValRe(line)[2], keyValRe(line)[3])]
        ELSE [st EXCEPT !.err = InvalidLineErr(line)]
    IN  The({on(line) : line \in {TrimSpace(StripComment(raw))}})

\* lines 107-125, the body of the scanner loop on one line of the file;
\* st is the loop's state [section, conf, err]
parseLine(raw, st) ==
    LET on(line) ==
        IF Len(line) = 0 THEN st
        ELSE IF sectionRe(line) # <<>>
        THEN [st EXCEPT !.section = sectionRe(line)[2]]
        ELSE IF keyValRe(line) # <<>>
        THEN [st EXCEPT !.conf = Store(st.conf, st.section,
                                       keyValRe(line)[2], keyValRe(line)[3])]
        ELSE [st EXCEPT !.err = InvalidLineErr(line)]
    IN  The({on(line) : line \in {TrimSpace(StripComment(raw))}})

\* lines 106-127: for buf.Scan() { ... }, left at the first invalid line
RECURSIVE scan(_, _, _)
scan(lines, i, st) ==
    IF i > Len(lines) \/ st.err # NilErr
    THEN [conf |-> st.conf, err |-> st.err]
    ELSE The({scan(lines, i + 1, next) : next \in {parseLine(lines[i], st)}})

parseConfigFile(pathname) ==
    IF ~fs[pathname].exists
    THEN [conf |-> EmptyConf, err |-> OpenErr]
    ELSE scan(fs[pathname].lines, 1,
              [section |-> DefaultSectionName, conf |-> DefaultConf, err |-> NilErr])

-----------------------------------------------------------------------------
(* Config, src/goconf.go lines 19-90 *)

\* an interface{} value: NilValue is the nil interface, else a map value
NilValue == [iface |-> "nil"]

\* the value holds a non-nil map
HoldsMap(v) == v # NilValue /\ v # NilMap

\* lines 66-68 left out: the table is used whatever parseConfigFile's error
lookupSectionIgnoreErr(cfg, section) ==
    LET r == parseConfigFile(cfg.pathname)
    IN  IF section \notin DOMAIN r.conf
        THEN [value |-> NilValue, err |-> NoSuchSectionErr(section)]
        ELSE [value |-> Map(r.conf[section]), err |-> NilErr]

\* lines 70-72 left out: conf[section] of an absent section is a nil map
lookupSectionNoOkCheck(cfg, section) ==
    LET r == parseConfigFile(cfg.pathname)
    IN  IF r.err # NilErr THEN [value |-> NilValue, err |-> r.err]
        ELSE IF section \notin DOMAIN r.conf
        THEN [value |-> NilMap, err |-> NilErr]
        ELSE [value |-> Map(r.conf[section]), err |-> NilErr]

\* lines 70-72 as "return nil, nil": an absent section is no error
lookupSectionNilOnMissing(cfg, section) ==
    LET r == parseConfigFile(cfg.pathname)
    IN  IF r.err # NilErr THEN [value |-> NilValue, err |-> r.err]
        ELSE IF section \notin DOMAIN r.conf
        THEN [value |-> NilValue, err |-> NilErr]
        ELSE [value |-> Map(r.conf[section]), err |-> NilErr]

\* lines 63-75: the loader handed to the cache
lookupSection(cfg, section) ==
    LET r == parseConfigFile(cfg.pathname)
    IN  IF r.err # NilErr THEN [value |-> NilValue, err |-> r.err]
        ELSE IF section \notin DOMAIN r.conf
        THEN [value |-> NilValue, err |-> NoSuchSectionErr(section)]
        ELSE [value |-> Map(r.conf[section]), err |-> NilErr]

\* lines 81-83 left out: the error of LoadStore is dropped
SectionResultNoErrCheck(r) ==
    IF r.value = NilValue THEN [val |-> NilMap, err |-> [kind |-> "panic"]]
    ELSE [val |-> r.value, err |-> NilErr]

\* lines 81-84: what Section makes of LoadStore's (dict, err); the type
\* assertion on a nil interface panics
SectionResult(r) ==
    IF r.err # NilErr THEN [val |-> NilMap, err |-> r.err]
    ELSE IF r.value = NilValue THEN [val |-> NilMap, err |-> [kind |-> "panic"]]
    ELSE [val |-> r.value, err |-> NilErr]

\* line 32 with a time-to-live set by default
NewConfigDefaultTTL(pathname) == [nil |-> FALSE, pathname |-> pathname, ttl |-> 1]

\* line 32: c := &Config{pathname: pathname}
NewConfig(pathname) == [nil |-> FALSE, pathname |-> pathname, ttl |-> 0]

\* line 55 as ttl < 0: a zero duration is let through
TTLRejectsNegativeOnly(ttl, cfg) ==
    IF ttl < 0 THEN [c |-> cfg, err |-> TTLErr]
    ELSE [c |-> [cfg EXCEPT !.ttl = ttl], err |-> NilErr]

\* lines 53-61: the setter TTL(ttl), applied to cfg
TTL(ttl, cfg) ==
    IF ttl <= 0 THEN [c |-> cfg, err |-> TTLErr]
    ELSE [c |-> [cfg EXCEPT !.ttl = ttl], err |-> NilErr]

\* lines 34-38: for _, setter := range setters
RECURSIVE ApplySetters(_, _, _)
ApplySetters(setters, i, cfg) ==
    IF i > Len(setters) THEN [c |-> cfg, err |-> NilErr]
    ELSE LET r == TTL(setters[i], cfg)
         IN  IF r.err # NilErr THEN [c |-> NilConfig, err |-> r.err]
             ELSE ApplySetters(setters, i + 1, r.c)

\* lines 41-43 left out: the time-to-live never reaches the cache
CgmSettersNoTTL(cfg) == <<>>

\* lines 40-43: the congomap.TTL setters handed to the cache (congomap.Lookup
\* is always handed over)
CgmSetters(cfg) == IF cfg.ttl > 0 THEN <<cfg.ttl>> ELSE <<>>

\* congomap.NewSyncAtomicMap: an empty cache, its time-to-live from the last
\* TTL setter, 0 (entries never expire) without one
NewSyncAtomicMap(cgms) ==
    [ttl |-> IF Len(cgms) = 0 THEN 0 ELSE cgms[Len(cgms)], err |-> NilErr]

\* lines 29-50
New(pathname, setters) ==
    LET a   == ApplySetters(setters, 1, NewConfig(pathname))
        cgm == NewSyncAtomicMap(CgmSetters(a.c))
    IN  IF a.err # NilErr THEN [c |-> NilConfig, err |-> a.err, ttl |-> 0]
        ELSE IF cgm.err # NilErr THEN [c |-> NilConfig, err |-> cgm.err, ttl |-> 0]
        ELSE [c |-> a.c, err |-> NilErr, ttl |-> cgm.ttl]

-----------------------------------------------------------------------------
(* The cache behind Config.cgm ("Cache Core", specification section 4.1) *)

\* an entry's age is now - insertion timestamp; expired when age >= TTL,
\* only when TTL > 0
Expired(e) == cgmTTL > 0 /\ now - e.ts >= cgmTTL

\* step 1: an existing, non-expired entry
Live(name) == name \in DOMAIN db /\ ~Expired(db[name])

\* no deduplication: a caller never waits for a load in flight
MustWaitNever(name) == FALSE

\* one lock for the whole cache: a caller waits for any load in flight
MustWaitAny(name) == inflight # {}

\* step 2: a load for this key is already in flight
MustWait(name) == name \in inflight

\* the callers blocked on a load are forgotten when it completes
WaitersNone(name) == {}

\* the callers blocked on the in-flight load of name
Waiters(name) == {q \in Callers : pc[q] = "waiting" /\ key[q] = name}

\* step 3, success: cached value + fresh timestamp; failure: no value cached
Installed(name, r) ==
    IF r.err = NilErr /\ ~closed
    THEN Put(db, name, [value |-> r.value, ts |-> now])
    ELSE db

\* what the callers that return when the load of a caller completes receive:
\* the loading caller and every caller blocked on its load get its result r
Delivered(done, r) == [q \in done |-> r]

\* step 3 on the references: the entry holds the very map the loader of
\* caller p returned, in place of the map it held
InstalledRef(name, r, p) ==
    IF r.err = NilErr /\ ~closed /\ p \in DOMAIN lref
    THEN Put(cref, name, lref[p])
    ELSE cref

NoResult == [value |-> NilValue, err |-> NilErr]
NoReturn == [how |-> "none", name |-> DefaultSectionName, loads |-> 0]

-----------------------------------------------------------------------------
(* Files *)

\* " x = 1 ;c"
LineX == <<" ", "x", " ", "=", " ", "1", " ", ";", "c">>
LineA == <<"[", "A", "]">>
LineB == <<"[", "B", "]">>
LineG == <<"[", "G", "e", "n", "e", "r", "a", "l", "]">>
LineKV == <<"k", "=", "v">>
LineKW == <<"k", "=", "w">>
LineBad == <<"n">>
LineComment == <<";", "c">>
\* "k = ;n"
LineNoValue == <<"k", " ", "=", " ", ";", "n">>

ParseLines ==
    {LineX, LineA, LineB, LineG, LineKV, LineKW, LineBad, LineComment, LineNoValue}

RECURSIVE SeqsUpTo(_, _)
SeqsUpTo(S, n) ==
    IF n = 0 THEN {<<>>}
    ELSE LET shorter == SeqsUpTo(S, n - 1)
         IN  shorter \cup {Append(q, x) : q \in shorter, x \in S}

\* the files of the parser's specification
ParseFiles == {NoFile} \cup {File(ls) : ls \in SeqsUpTo(ParseLines, MaxLines)}

\* the files the backing file moves between in the cache's specification
FileV == File(<<LineX, LineA, LineKV>>)
FileW == File(<<LineX, LineA, LineKW>>)
FileBad == File(<<LineX, LineA, LineKV, LineBad>>)
Files == {FileV, FileW, FileBad, NoFile}

\* the setters New is called with: none, or one TTL(d)
TTLArgs == (-1)..MaxTTL
SetterLists == {<<>>} \cup {<<d>> : d \in TTLArgs}

-----------------------------------------------------------------------------
(* Initial states: the state after New(Pathname, opts) *)

InitWith(setters, file) ==
    /\ opts = setters
    /\ c = New(Pathname, setters).c
    /\ newErr = New(Pathname, setters).err
    /\ cgmTTL = New(Pathname, setters).ttl
    /\ fs = [f \in {Pathname} |-> file]
    /\ now = 0
    /\ db = EmptyConf
    /\ inflight = {}
    /\ closed = FALSE
    /\ pc = [p \in Callers |-> "idle"]
    /\ key = [p \in Callers |-> DefaultSectionName]
    /\ loadRes = [p \in Callers |-> NoResult]
    /\ nloads = [n \in Names |-> 0]
    /\ ret = <<>>
    /\ served = NoReturn
    /\ heap = <<>>
    /\ cref = <<>>
    /\ lref = <<>>

Init == \E setters \in SetterLists : \E file \in Files : InitWith(setters, file)

InitParse == \E file \in ParseFiles : InitWith(<<>>, file)

-----------------------------------------------------------------------------
(* Actions *)

\* Section returns r to the callers of done, served the way how says
Return(done, r, how, name, loads) ==
    /\ ret' = [q \in done |-> SectionResult(r[q])]
    /\ served' = [how |-> how, name |-> name, loads |-> loads]

\* no call returns in this step
Quiet == ret' = <<>> /\ served' = NoReturn

\* Config.Section(name), lines 79-85, as far as LoadStore goes without
\* loading: it returns at once (closed, or a live entry), blocks on the
\* in-flight load of name, or becomes the one caller that loads name
SectionCall(p, name) ==
    /\ c # NilConfig
    /\ pc[p] = "idle"
    /\ IF closed
       THEN /\ Return({p}, Delivered({p}, [value |-> NilValue, err |-> ClosedErr]),
                      "closed", name, 0)
            /\ UNCHANGED <<pc, key, inflight, nloads>>
       ELSE IF Live(name)
       THEN /\ Return({p}, Delivered({p}, [value |-> db[name].value, err |-> NilErr]),
                      "hit", name, 0)
            /\ UNCHANGED <<pc, key, inflight, nloads>>
       ELSE IF MustWait(name)
       THEN /\ pc' = [pc EXCEPT ![p] = "waiting"]
            /\ key' = [key EXCEPT ![p] = name]
            /\ Quiet
            /\ UNCHANGED <<inflight, nloads>>
       ELSE /\ pc' = [pc EXCEPT ![p] = "loading"]
            /\ key' = [key EXCEPT ![p] = name]
            /\ inflight' = inflight \cup {name}
            /\ nloads' = [nloads EXCEPT ![name] = 0]
            /\ Quiet
    /\ UNCHANGED <<opts, c, newErr, fs, now, cgmTTL, db, closed, loadRes>>
    /\ UNCHANGED <<heap, cref, lref>>

\* the loader runs for the caller that loads: lookupSection re-reads and
\* re-parses the file into maps the parse makes (lines 100, 104, 119); the one
\* it returns (line 73) stays in memory, the others are garbage when it returns
LoaderRun(p) ==
    /\ pc[p] = "loading"
    /\ loadRes' = [loadRes EXCEPT ![p] = lookupSection(c, key[p])]
    /\ IF HoldsMap(loadRes'[p].value)
       THEN /\ heap' = Put(heap, NewMap(InUse(cref, lref)), loadRes'[p].value.dict)
            /\ lref' = Put(lref, p, NewMap(InUse(cref, lref)))
       ELSE UNCHANGED <<heap, lref>>
    /\ UNCHANGED cref
    /\ nloads' = [nloads EXCEPT ![key[p]] = @ + 1]
    /\ pc' = [pc EXCEPT ![p] = "loaded"]
    /\ Quiet
    /\ UNCHANGED <<opts, c, newErr, fs, now, cgmTTL, db, inflight, closed, key>>

\* the load completes: the result is installed, the in-flight marker is
\* cleared, and the loading caller and every caller blocked on the load
\* return from Section
Install(p) ==
    /\ pc[p] = "loaded"
    /\ LET done == {p} \cup Waiters(key[p])
       IN  /\ db' = Installed(key[p], loadRes[p])
           /\ cref' = InstalledRef(key[p], loadRes[p], p)
           /\ lref' = Drop(lref, p)
           /\ heap' = Restrict(heap, InUse(cref', lref'))
           /\ inflight' = inflight \ {key[p]}
           /\ pc' = [q \in Callers |-> IF q \in done THEN "idle" ELSE pc[q]]
           /\ key' = [q \in Callers |->
                         IF q \in done THEN DefaultSectionName ELSE key[q]]
           /\ Return(done, Delivered(done, loadRes[p]), "load", key[p],
                     nloads[key[p]])
    /\ loadRes' = [loadRes EXCEPT ![p] = NoResult]
    /\ nloads' = [nloads EXCEPT ![key[p]] = 0]
    /\ UNCHANGED <<opts, c, newErr, fs, now, cgmTTL, closed>>

\* Close of a closed cache opens it again
cgmCloseReopens ==
    /\ closed' = ~closed
    /\ db' = EmptyConf
    /\ cref' = <<>>
    /\ heap' = Restrict(heap, InUse(cref', lref))

\* the cache's Close: it releases its entries and from now on Get fails; on a
\* cache that is closed already it returns and leaves the cache closed
cgmClose ==
    /\ closed' = TRUE
    /\ db' = EmptyConf
    /\ cref' = <<>>
    /\ heap' = Restrict(heap, InUse(cref', lref))

\* Config.Close, lines 88-90: return c.cgm.Close(); served tells a Close of
\* an open Config from a Close of a closed one
Close ==
    /\ c # NilConfig
    /\ cgmClose
    /\ ret' = <<>>
    /\ served' = [how |-> IF closed THEN "close again" ELSE "close",
                  name |-> DefaultSectionName, loads |-> 0]
    /\ UNCHANGED <<opts, c, newErr, fs, now, cgmTTL, inflight, pc, key,
                   loadRes, nloads, lref>>

\* time passes
Tick ==
    /\ c # NilConfig
    /\ now < MaxTime
    /\ now' = now + 1
    /\ Quiet
    /\ UNCHANGED <<opts, c, newErr, fs, cgmTTL, db, inflight, closed, pc, key,
                   loadRes, nloads, heap, cref, lref>>

\* the backing file is rewritten, or removed
WriteFile(file) ==
    /\ c # NilConfig
    /\ fs[Pathname] # file
    /\ fs' = [fs EXCEPT ![Pathname] = file]
    /\ Quiet
    /\ UNCHANGED <<opts, c, newErr, now, cgmTTL, db, inflight, closed, pc, key,
                   loadRes, nloads, heap, cref, lref>>

Next ==
    \/ \E p \in Callers : \E name \in CacheNames : SectionCall(p, name)
    \/ \E p \in Callers : LoaderRun(p)
    \/ \E p \in Callers : Install(p)
    \/ Close
    \/ Tick
    \/ \E file \in Files : WriteFile(file)

Spec == Init /\ [][Next]_vars

\* the scheduler runs every goroutine that can take a step: a loader that has
\* been invoked runs to its end (parseConfigFile reads a finite file), and a
\* load whose loader has returned completes
\* the step in which the loader invoked for caller p returns, as the caller's
\* position shows it: the LoaderRun(p) steps are the steps of the program
\* that satisfy it
LoaderReturns(p) == pc[p] = "loading" /\ pc' = [pc EXCEPT ![p] = "loaded"]

Fairness == \A p \in Callers : WF_pc(LoaderReturns(p)) /\ WF_vars(Install(p))

\* the callers, the clock and Close on a file that stays as it is
NextLive ==
    \/ \E p \in Callers : \E name \in CacheNames : SectionCall(p, name)
    \/ \E p \in Callers : LoaderRun(p)
    \/ \E p \in Callers : Install(p)
    \/ Close
    \/ Tick

SpecLive == Init /\ [][NextLive]_vars /\ Fairness

\* one caller, one file that stays as it is: the parser and the loader on
\* every file of ParseFiles
NextParse ==
    \/ \E name \in Names : SectionCall(1, name)
    \/ LoaderRun(1)
    \/ Install(1)

SpecParse == InitParse /\ [][NextParse]_vars

-----------------------------------------------------------------------------
(* The file as the claims read it: line by line, without the scanner loop *)

TheFile == fs[Pathname]
Clean(raw) == TrimSpace(StripComment(raw))
IsHeader(raw) == sectionRe(Clean(raw)) # <<>>
IsPair(raw) == ~IsHeader(raw) /\ keyValRe(Clean(raw)) # <<>>
IsBad(raw) == Clean(raw) # <<>> /\ ~IsHeader(raw) /\ ~IsPair(raw)

BadLines(lines) == {i \in 1..Len(lines) : IsBad(lines[i])}
WellFormed(file) == file.exists /\ BadLines(file.lines) = {}
Malformed(file) == file.exists /\ BadLines(file.lines) # {}

Headers(lines) == {i \in 1..Len(lines) : IsHeader(lines[i])}

\* the section line i belongs to: the name of the nearest header above it, the
\* default section when there is none
SectionAt(lines, i) ==
    LET above == {j \in Headers(lines) : j < i}
    IN  IF above = {} THEN DefaultSectionName
        ELSE sectionRe(Clean(lines[SetMax(above)]))[2]

\* the pairs of the lines at the indices idx, a later line winning over an
\* earlier one with the same key
PairsAt(lines, idx) ==
    LET pairs == {i \in idx : IsPair(lines[i])}
        k(i)  == keyValRe(Clean(lines[i]))[2]
        v(i)  == keyValRe(Clean(lines[i]))[3]
    IN  [x \in {k(i) : i \in pairs} |->
            v(SetMax({i \in pairs : k(i) = x}))]

PairsOf(lines, name) ==
    PairsAt(lines, {i \in 1..Len(lines) : SectionAt(lines, i) = name})

PairsBeforeFirstHeader(lines) ==
    PairsAt(lines, {i \in 1..Len(lines) : \A j \in Headers(lines) : i < j})

HasSection(lines, name) ==
    \/ name = DefaultSectionName
    \/ \E i \in 1..Len(lines) : IsPair(lines[i]) /\ SectionAt(lines, i) = name

\* the pair a line "k = v ; comment" stands for: the text on either side of
\* the first '=' of the line without its comment, the blanks around each
\* removed
TrimmedKey(raw) ==
    LET line == StripComment(raw)
    IN  TrimSpace(SubSeq(line, 1, IndexByte(line, "=")))
TrimmedValue(raw) ==
    LET line == StripComment(raw)
    IN  TrimSpace(SubSeq(line, IndexByte(line, "=") + 2, Len(line)))

\* the pairs of the section name, keys and values trimmed, a later line
\* winning over an earlier one with the same key
TrimmedPairsOf(lines, name) ==
    LET pairs == {i \in 1..Len(lines) :
                     IsPair(lines[i]) /\ SectionAt(lines, i) = name}
    IN  [x \in {TrimmedKey(lines[i]) : i \in pairs} |->
            TrimmedValue(lines[SetMax({i \in pairs : TrimmedKey(lines[i]) = x})])]

\* the lines between a header named name and the next header (or the end of
\* the file)
UnderHeader(lines, name) ==
    {i \in 1..Len(lines) :
        \E h \in Headers(lines) :
            /\ h < i
            /\ sectionRe(Clean(lines[h]))[2] = name
            /\ \A j \in Headers(lines) : ~(h < j /\ j <= i)}

\* a line "k =": once the comment is stripped and the line is trimmed, a
\* non-empty key, the first '=', and nothing after it
EmptyValue(raw) ==
    Len(Clean(raw)) >= 2 /\ IndexByte(Clean(raw), "=") = Len(Clean(raw)) - 1

EmptyValueLines(lines) == {i \in 1..Len(lines) : EmptyValue(lines[i])}

\* the callers that are loading name
Loaders(name) == {p \in Callers : pc[p] \in {"loading", "loaded"} /\ key[p] = name}

\* the step is the loader run, or the completion of the load, of caller p:
\* LoaderRun(p) alone takes p from loading to loaded, Install(p) alone from
\* loaded to idle
LoaderRunStep(p) == pc[p] = "loading" /\ pc'[p] = "loaded"
InstallStep(p) == pc[p] = "loaded" /\ pc'[p] = "idle"

\* the step is the call Section(name) of caller p; such a step returns to p
\* or moves p on, which is looked at first
CallStep(p, name) ==
    (p \in DOMAIN ret' \/ pc'[p] # pc[p]) /\ SectionCall(p, name)

Ok(m) == [val |-> Map(m), err |-> NilErr]
Failed(e) == [val |-> NilMap, err |-> e]

-----------------------------------------------------------------------------
(* Claims *)

\* C9: TTL validation. New with a TTL option whose duration is zero or
\* negative fails with the validation error and returns no Config; with a
\* strictly positive duration it succeeds and the Config's TTL is that duration.
C9_TTLValidation ==
    \A d \in TTLArgs :
        opts = <<d>> =>
            IF d <= 0
            THEN c = NilConfig /\ newErr = TTLErr
            ELSE c # NilConfig /\ newErr = NilErr /\ c.ttl = d

C9_Witness == Len(opts) = 1 /\ opts[1] <= 0 /\ c = NilConfig /\ newErr # NilErr

\* C10 as stated: for every well-formed file, a load of the default section
\* succeeds (the table contains "General", also for an empty file) and
\* Section(DefaultSectionName) returns exactly the pairs of the lines before
\* the first header.
C10_ExactlyPairsBeforeFirstHeader ==
    (WellFormed(TheFile) /\ served.how = "load" /\ served.name = DefaultSectionName)
        => \A p \in DOMAIN ret :
               ret[p] = Ok(PairsBeforeFirstHeader(TheFile.lines))

\* C10, amended: for every well-formed file, a load of the default section
\* succeeds, also for an empty file, and Section(DefaultSectionName) returns
\* the pairs of the lines before the first header together with the pairs of
\* the lines under a [General] header, a later line winning over an earlier
\* one with the same key; these are exactly the pairs before the first header
\* when no header of the file is named General.
C10_DefaultSection ==
    (WellFormed(TheFile) /\ served.how = "load" /\ served.name = DefaultSectionName)
        => /\ \A p \in DOMAIN ret :
                  ret[p] = Ok(PairsOf(TheFile.lines, DefaultSectionName))
           /\ (\A j \in Headers(TheFile.lines) :
                    sectionRe(Clean(TheFile.lines[j]))[2] # DefaultSectionName)
                => \A p \in DOMAIN ret :
                       ret[p] = Ok(PairsBeforeFirstHeader(TheFile.lines))

\* a file with a pair before the first header, and the default section loaded
C10_Witness ==
    /\ WellFormed(TheFile)
    /\ served.how = "load" /\ served.name = DefaultSectionName
    /\ Headers(TheFile.lines) # {}
    /\ DOMAIN PairsBeforeFirstHeader(TheFile.lines) # {}
    /\ \E p \in DOMAIN ret : ret[p].err = NilErr

\* C7: malformed line. When some line of the file, once the comment is
\* stripped and the line is trimmed, is non-empty and neither a header nor a
\* pair, a load of any section fails with the parse error that names the
\* (first) offending line, returns no mapping, and nothing is stored in the
\* cache.
C7_MalformedLine ==
    Malformed(TheFile) =>
        LET bad == Clean(TheFile.lines[SetMin(BadLines(TheFile.lines))])
        IN  /\ db = EmptyConf
            /\ \A p \in Callers :
                   pc[p] = "loaded" =>
                       loadRes[p] = [value |-> NilValue, err |-> InvalidLineErr(bad)]
            /\ \A p \in DOMAIN ret : ret[p] = Failed(InvalidLineErr(bad))

\* the load of a section whose pairs all stand above the malformed line
C7_Witness ==
    /\ Malformed(TheFile)
    /\ served.how = "load"
    /\ \E i \in 1..Len(TheFile.lines) :
           /\ IsPair(TheFile.lines[i])
           /\ SectionAt(TheFile.lines, i) = served.name
           /\ i < SetMin(BadLines(TheFile.lines))
    /\ \A i \in 1..Len(TheFile.lines) :
           SectionAt(TheFile.lines, i) = served.name
               => i < SetMin(BadLines(TheFile.lines))

\* C1: single-flight. The callers of Section(name) that miss together form
\* one load: at most one caller loads name at a time, a caller waits only
\* while some caller loads that name, the loader has run once for the load
\* when its result is in (not at all before), and when the load completes
\* the loader has run exactly once for it and every caller of it (the
\* loading one and all the waiting ones) returns the same (mapping, error).
C1_SingleFlight ==
    /\ \A name \in CacheNames :
           /\ Cardinality(Loaders(name)) <= 1
           /\ (Waiters(name) # {} => Loaders(name) # {})
           /\ (name \in inflight <=> Loaders(name) # {})
           /\ nloads[name] =
                  IF \E p \in Loaders(name) : pc[p] = "loaded" THEN 1 ELSE 0
    /\ served.how = "load" =>
           /\ served.loads = 1
           /\ Waiters(served.name) = {}
           /\ \A p, q \in DOMAIN ret : ret[p] = ret[q]

\* two callers of one load return together
C1_Witness == served.how = "load" /\ Cardinality(DOMAIN ret) >= 2

\* C2: TTL expiry. With a TTL option T > 0 and an entry for name stored at
\* t0, a Section(name) call at a time < t0 + T returns the cached mapping at
\* once and runs no loader; a call at a time >= t0 + T returns nothing at
\* once but loads or joins the load in flight, the loader runs only once the
\* entry has expired, and the callers of the load return what that loader run
\* produced, which on success is stored with the time of the store.
C2_TTLExpiry ==
    [][ /\ \A p \in Callers : \A name \in CacheNames :
              (pc[p] = "idle" /\ ~closed /\ name \in DOMAIN db /\ c.ttl > 0
                                /\ CallStep(p, name))
                  => IF now < db[name].ts + c.ttl
                     THEN /\ ret' = [q \in {p} |->
                                        [val |-> db[name].value, err |-> NilErr]]
                          /\ served'.how = "hit"
                          /\ pc' = pc /\ nloads' = nloads /\ loadRes' = loadRes
                     ELSE /\ ret' = <<>>
                          /\ pc'[p] \in {"loading", "waiting"}
        /\ \A p \in Callers :
              (pc[p] = "loading" /\ key[p] \in DOMAIN db /\ c.ttl > 0
                                   /\ LoaderRunStep(p))
                  => now >= db[key[p]].ts + c.ttl
        /\ \A p \in Callers : \A name \in CacheNames :
              (pc[p] = "loaded" /\ key[p] = name /\ ~closed /\ c.ttl > 0
                                  /\ InstallStep(p))
                  => /\ \A q \in DOMAIN ret' :
                            ret'[q] = [val |-> IF loadRes[p].err = NilErr
                                               THEN loadRes[p].value ELSE NilMap,
                                       err |-> loadRes[p].err]
                     /\ loadRes[p].err = NilErr
                            => db'[name] = [value |-> loadRes[p].value, ts |-> now]
      ]_vars

\* an entry has expired and the loader has read a different mapping
C2_Witness ==
    /\ c # NilConfig /\ cgmTTL > 0
    /\ \E p \in Callers :
           /\ pc[p] = "loaded"
           /\ key[p] \in DOMAIN db
           /\ loadRes[p].err = NilErr
           /\ loadRes[p].value # db[key[p]].value

\* C3: failures are never cached. The loader fails exactly when the file
\* cannot be opened, is malformed, or lacks the section, and then hands back
\* no value; a failed load stores nothing (the cache is as before, with no
\* live entry for the name and no load in flight for it); a call for a name
\* with no live entry and no load in flight (so also the call right after a
\* failed one) starts a load; and a loader run on a file that is well formed
\* and has the section returns the section's mapping.
C3_FailuresNotCached ==
    [][ /\ \A p \in Callers :
              LoaderRunStep(p)
                  => IF WellFormed(TheFile) /\ HasSection(TheFile.lines, key[p])
                     THEN loadRes'[p] =
                              [value |-> Map(PairsOf(TheFile.lines, key[p])),
                               err |-> NilErr]
                     ELSE loadRes'[p].value = NilValue /\ loadRes'[p].err # NilErr
        /\ \A p \in Callers : \A name \in CacheNames :
              (pc[p] = "loaded" /\ key[p] = name /\ loadRes[p].err # NilErr
                                  /\ InstallStep(p))
                  => /\ db' = db
                     /\ ~(Live(name))'
                     /\ name \notin inflight'
                     /\ \A q \in DOMAIN ret' : ret'[q] = Failed(loadRes[p].err)
        /\ \A p \in Callers : \A name \in CacheNames :
              (pc[p] = "idle" /\ ~closed /\ ~Live(name) /\ name \notin inflight
                                /\ CallStep(p, name))
                  => pc'[p] = "loading" /\ ret' = <<>>
      ]_vars

\* a load has failed and the file has been fixed since the loader read it
C3_Witness ==
    /\ served.how = "load"
    /\ \E p \in DOMAIN ret : ret[p].err # NilErr
    /\ WellFormed(TheFile) /\ HasSection(TheFile.lines, served.name)

\* C4: post-close. Once Close has returned the Config stays closed, and every
\* Section(name) call made from then on returns the closed error and no
\* mapping at once, without starting or joining a load and without a loader
\* run.
C4_PostClose ==
    [][ /\ closed => closed'
        /\ \A p \in Callers : \A name \in CacheNames :
              (closed /\ CallStep(p, name))
                  => /\ ret' = [q \in {p} |-> Failed(ClosedErr)]
                     /\ pc' = pc /\ inflight' = inflight
                     /\ nloads' = nloads /\ loadRes' = loadRes
      ]_vars

C4_Witness == closed /\ served.how = "closed" /\ DOMAIN ret # {}

\* C5: no expiry by default. With no TTL option, an entry once stored stays
\* as it is (same mapping, same timestamp) until Close; every Section(name)
\* call before Close for a name that has an entry returns the entry's mapping
\* at once; and no loader runs for a name that has an entry.
C5_NoExpiryByDefault ==
    [][ opts = <<>> =>
          /\ \A name \in CacheNames :
                (name \in DOMAIN db /\ ~closed')
                    => name \in DOMAIN db' /\ db'[name] = db[name]
          /\ \A p \in Callers : \A name \in CacheNames :
                (pc[p] = "idle" /\ ~closed /\ name \in DOMAIN db
                                  /\ CallStep(p, name))
                    => /\ ret' = [q \in {p} |->
                                     [val |-> db[name].value, err |-> NilErr]]
                       /\ pc' = pc /\ nloads' = nloads /\ loadRes' = loadRes
          /\ \A p \in Callers : LoaderRunStep(p) => key[p] \notin DOMAIN db
      ]_vars

\* a hit at the end of time on an entry stored at time 0, the file holding
\* something else by now
C5_Witness ==
    /\ opts = <<>> /\ served.how = "hit"
    /\ now = MaxTime /\ db[served.name].ts = 0
    /\ lookupSection(c, served.name).value # db[served.name].value

\* C6: unknown section. A loader run for a name absent from the parsed table
\* of a well-formed file returns the 'no such section' error and no value; the
\* load then returns that error and no mapping to its callers, leaves every
\* entry of the cache as it is, clears only its own in-flight marker, and
\* leaves the calls in progress for other sections where they are.
C6_UnknownSection ==
    [][ /\ \A p \in Callers :
              (LoaderRunStep(p) /\ WellFormed(TheFile)
                                /\ ~HasSection(TheFile.lines, key[p]))
                  => loadRes'[p] =
                         [value |-> NilValue, err |-> NoSuchSectionErr(key[p])]
        /\ \A p \in Callers : \A name \in CacheNames :
              (pc[p] = "loaded" /\ key[p] = name
                  /\ loadRes[p].err = NoSuchSectionErr(name) /\ InstallStep(p))
                  => /\ DOMAIN ret' # {}
                     /\ \A q \in DOMAIN ret' :
                            ret'[q] = Failed(NoSuchSectionErr(name))
                     /\ db' = db
                     /\ inflight' = inflight \ {name}
                     /\ \A q \in Callers :
                            (pc[q] # "idle" /\ key[q] # name)
                                => /\ pc'[q] = pc[q] /\ key'[q] = key[q]
                                   /\ loadRes'[q] = loadRes[q]
      ]_vars

\* the unknown section has been asked for while another section is cached
C6_Witness ==
    /\ served.how = "load" /\ served.name = SecB
    /\ \E p \in DOMAIN ret : ret[p] = Failed(NoSuchSectionErr(SecB))
    /\ SecA \in DOMAIN db

\* C8: independence of keys. A caller waits only for a load of the section
\* it asked for; whatever loads are in flight for other sections, an idle
\* caller can call Section for any section (and then returns the cached
\* value, or loads, or joins the load of that same section), and a caller
\* whose loader has returned can complete its load.
C8_IndependentKeys ==
    \A q \in Callers :
        /\ pc[q] = "waiting" => Loaders(key[q]) # {}
        /\ (c # NilConfig /\ pc[q] = "idle")
               => \A b \in CacheNames : ENABLED SectionCall(q, b)
        /\ pc[q] = "loaded" => ENABLED Install(q)

\* a load of one section has completed while the load of another one is
\* still in flight
C8_Witness ==
    /\ served.how = "load"
    /\ \E p \in Callers :
           pc[p] \in {"loading", "loaded"} /\ key[p] # served.name

\* C11, as stated: key/value trimming and comment stripping. For a pair line
\* "k = v ; comment", with any amount of blanks around k, around the first '='
\* and around v, the parser stores the key exactly k and the value exactly v:
\* every key of a mapping Section returns is the text before the first '=' of a
\* pair line of that section with the blanks around it removed, its value is
\* the text between that '=' and the ';' with the blanks around it removed, and
\* neither has a leading or a trailing blank.
C11_KeyValueTrimmed ==
    (WellFormed(TheFile) /\ served.how = "load")
        => \A p \in DOMAIN ret :
               ret[p].err = NilErr
                   => /\ \A k \in DOMAIN ret[p].val.dict :
                             /\ k = TrimSpace(k)
                             /\ ret[p].val.dict[k] = TrimSpace(ret[p].val.dict[k])
                             /\ IndexByte(ret[p].val.dict[k], ";") = -1
                      /\ ret[p].val.dict =
                             TrimmedPairsOf(TheFile.lines, served.name)

\* C12: round trip. For a well-formed file, Section(A) of a section A other
\* than the default one returns exactly the pairs of the lines between a
\* header [A] and the next header (or the end of the file), a later line
\* winning over an earlier one with the same key: no pair of that range is
\* missing and no pair of another section or of the default section is in it;
\* when no pair stands in that range, no mapping is returned.
C12_RoundTrip ==
    (WellFormed(TheFile) /\ served.how = "load"
                         /\ served.name # DefaultSectionName)
        => \A p \in DOMAIN ret :
               LET under == PairsAt(TheFile.lines,
                                    UnderHeader(TheFile.lines, served.name))
               IN  IF DOMAIN under # {}
                   THEN ret[p] = Ok(under)
                   ELSE ret[p].val = NilMap

\* the section loaded stands after a pair of the default section, or after a
\* pair of another section
C12_Witness ==
    /\ WellFormed(TheFile)
    /\ served.how = "load" /\ served.name # DefaultSectionName
    /\ \E p \in DOMAIN ret : ret[p].err = NilErr
    /\ \E i \in 1..Len(TheFile.lines) :
           /\ IsPair(TheFile.lines[i])
           /\ i \notin UnderHeader(TheFile.lines, served.name)

\* C16: a section other than the default one is in the parsed table of a
\* well-formed file if and only if at least one pair line stands under a
\* header with its name. The loader, and so Section(name), succeeds for such
\* a name exactly then; a header [name] with no pair line before the next
\* header or the end of the file creates no section, and Section(name) fails
\* with 'no such section' and no mapping.
C16_SectionNeedsPair ==
    WellFormed(TheFile) =>
        /\ \A p \in Callers :
               (pc[p] = "loaded" /\ key[p] # DefaultSectionName)
                   => IF \E i \in UnderHeader(TheFile.lines, key[p]) :
                             IsPair(TheFile.lines[i])
                      THEN loadRes[p].err = NilErr /\ loadRes[p].value # NilValue
                      ELSE loadRes[p] = [value |-> NilValue,
                                         err |-> NoSuchSectionErr(key[p])]
        /\ (served.how = "load" /\ served.name # DefaultSectionName)
               => \A p \in DOMAIN ret :
                      IF \E i \in UnderHeader(TheFile.lines, served.name) :
                             IsPair(TheFile.lines[i])
                      THEN ret[p].err = NilErr /\ ret[p].val # NilMap
                      ELSE ret[p] = Failed(NoSuchSectionErr(served.name))

\* the file has a header for the section and no pair under it, and Section
\* of it has failed
C16_Witness ==
    /\ WellFormed(TheFile)
    /\ served.how = "load" /\ served.name # DefaultSectionName
    /\ \E h \in Headers(TheFile.lines) :
           sectionRe(Clean(TheFile.lines[h]))[2] = served.name
    /\ \E i \in 1..Len(TheFile.lines) : IsPair(TheFile.lines[i])
    /\ \E p \in DOMAIN ret : ret[p] = Failed(NoSuchSectionErr(served.name))

\* C18: a pair line whose value is empty once the comment is stripped and
\* the line is trimmed ("k =", "k = ; note") is not stored as a pair with an
\* empty value: it is an invalid line. With such a line in the file the parse
\* is aborted, so the loader hands back the invalid-line error and no value
\* for every section, Section returns that error and no mapping, nothing is
\* stored in the cache, and the error names the line itself when no invalid
\* line stands above it.
C18_EmptyValueInvalid ==
    (TheFile.exists /\ EmptyValueLines(TheFile.lines) # {})
        => LET first == SetMin(EmptyValueLines(TheFile.lines))
               named(e) ==
                   /\ e.kind = "invalid config line"
                   /\ (\A j \in 1..(first - 1) : ~IsBad(TheFile.lines[j]))
                          => e = InvalidLineErr(Clean(TheFile.lines[first]))
           IN  /\ db = EmptyConf
               /\ \A p \in Callers :
                      pc[p] = "loaded"
                          => loadRes[p].value = NilValue /\ named(loadRes[p].err)
               /\ \A p \in DOMAIN ret :
                      ret[p].val = NilMap /\ named(ret[p].err)

\* the load of a section with a pair of its own, in a file whose only invalid
\* line is the pair line without a value
C18_Witness ==
    /\ TheFile.exists
    /\ \E i \in EmptyValueLines(TheFile.lines) : BadLines(TheFile.lines) = {i}
    /\ served.how = "load"
    /\ HasSection(TheFile.lines, served.name)
    /\ DOMAIN PairsOf(TheFile.lines, served.name) # {}
    /\ \E p \in DOMAIN ret : ret[p] = Failed(InvalidLineErr(<<"k", " ", "=">>))

C17_MappingOrError ==
    /\ \A name \in DOMAIN db :
           db[name].value # NilValue /\ db[name].value # NilMap
    /\ \A p \in Callers :
           pc[p] = "loaded"
               => IF loadRes[p].err = NilErr
                  THEN loadRes[p].value # NilValue /\ loadRes[p].value # NilMap
                  ELSE loadRes[p].value = NilValue
    /\ \A p \in DOMAIN ret :
           /\ ret[p].err.kind # "panic"
           /\ (ret[p].err = NilErr) # (ret[p].val = NilMap)

\* a cached mapping has been returned while the file lacks the section or
\* cannot be parsed
C17_Witness ==
    /\ served.how = "hit"
    /\ \E p \in DOMAIN ret : ret[p] = [val |-> db[served.name].value, err |-> NilErr]
    /\ ~(WellFormed(TheFile) /\ HasSection(TheFile.lines, served.name))

\* C14: waiters are released. A caller blocked on the in-flight load of its
\* section stays blocked until that load completes and returns in the step
\* that completes it, with the result of that load; and, every loader run
\* terminating, every Section call in progress (loading or blocked, for the
\* same or for different sections) eventually returns.
C14_WaitersReleased ==
    /\ [][ \A q \in Callers :
              pc[q] = "waiting"
                  => \/ pc'[q] = "waiting" /\ key'[q] = key[q]
                     \/ /\ q \in DOMAIN ret'
                        /\ served'.how = "load" /\ served'.name = key[q]
                        /\ \E p \in Callers :
                               /\ pc[p] = "loaded" /\ key[p] = key[q]
                               /\ ret'[q] = SectionResult(loadRes[p])
         ]_vars
    /\ \A p \in Callers : (pc[p] # "idle") ~> (p \in DOMAIN ret)

\* a blocked caller has been released with the error of the load it waited on
C14_Witness ==
    /\ served.how = "load"
    /\ Cardinality(DOMAIN ret) >= 2
    /\ \A p \in DOMAIN ret : ret[p].err # NilErr /\ pc[p] = "idle"

\* C15: cached mappings are replaced, never edited. The map the cache holds
\* for a section has the contents it was stored with; no step of the program
\* (a Section call, a loader run, the completion of a load of this or of
\* another section, Close, the clock, a rewrite of the file) changes the
\* contents of a map that stays in memory; a loader run returns a map that
\* was not in memory before; and the cache comes to hold another map for a
\* section only when a load of that section completes, and then it is the
\* map the loader of that load returned, with the contents the loader gave it,
\* while the map held before keeps its contents up to that step.
C15_ReplacedNeverEdited ==
    [][ /\ \A name \in DOMAIN db :
              /\ name \in DOMAIN cref /\ cref[name] \in DOMAIN heap
              /\ db[name].value = Map(heap[cref[name]])
        /\ \A a \in DOMAIN heap : a \in DOMAIN heap' => heap'[a] = heap[a]
        /\ \A p \in Callers :
              (pc[p] = "loading" /\ LoaderRunStep(p) /\ p \in DOMAIN lref')
                  => /\ lref'[p] \notin DOMAIN heap
                     /\ loadRes'[p].value = Map(heap'[lref'[p]])
        /\ \A name \in CacheNames :
              (name \in DOMAIN cref /\ name \in DOMAIN cref'
                                    /\ cref'[name] # cref[name])
                  => \E p \in Callers :
                         /\ pc[p] = "loaded" /\ key[p] = name /\ InstallStep(p)
                         /\ p \in DOMAIN lref /\ cref'[name] = lref[p]
                         /\ heap'[cref'[name]] = heap[lref[p]]
                         /\ db'[name].value = loadRes[p].value
      ]_vars

\* a refresh has put a second map, with other contents, in the place of the
\* first one
C15_Witness ==
    /\ served.how = "load" /\ served.name \in DOMAIN cref
    /\ cref[served.name] # 1
    /\ db[served.name].ts > 0
    /\ TheFile.exists /\ WellFormed(TheFile)
    /\ heap[cref[served.name]] # PairsOf(TheFile.lines, served.name)

====
